---- MODULE Spec2Model ----
(***************************************************************************)
(* Model of parsing.py: the clause locator (find_target_tokens), the       *)
(* negation check (check_for_negation), the feature resolver (check_gr),   *)
(* the conjunction finder (find_conjunction) and the annotation pipeline   *)
(* (make_new_df) with its final tag mapping.                               *)
(*                                                                         *)
(* A Doc is a sequence of Token records.  Token indices are 1-based here   *)
(* (spaCy's token.i is 0-based), so "token1.i + i > len(doc) - 1" of the   *)
(* source reads "token1 + i > Len(doc)" below.  A Python str "-" is the    *)
(* one-character sequence <<"-">>, a Python list ["Third"] is <<"Third">>, *)
(* so that x[0] is Head(x) for both; Python None is NoneTag for the        *)
(* morphological analyzer's tags and <<>> for a missing return value.      *)
(* Russian lemmas are written in Latin transliteration: "ne" is the        *)
(* negation particle, "dumat" the target verb, "chto", "chtoby", "budto",  *)
(* "no", "kak", "kakoj", "kogda" the closed conjunction set.               *)
(***************************************************************************)
EXTENDS Integers, Sequences, FiniteSets, TLC

VARIABLES initial_df, new_df, df, doc, verb, tokens, neg, mat, sub, conj, target, pc

vars == <<initial_df, new_df, df, doc, verb, tokens, neg, mat, sub, conj, target, pc>>

----------------------------------------------------------------------------
(* Bounds *)

MaxLen == 3

MaxRows == 2

----------------------------------------------------------------------------
(* Values supplied by the analyzers *)

NoneTag == "None"

None == <<>>

Dash == <<"-">>

TargetVerb == "dumat"

IndexError == "IndexError"

(* The locals of make_new_df before its first row. *)
Idle ==
    /\ initial_df = <<>> /\ new_df = <<>> /\ df = <<>>
    /\ tokens = None /\ neg = "" /\ mat = <<>> /\ sub = <<>> /\ conj = ""

(* A token as the pipeline reads it: spaCy's lemma_, pos_, dep_, head and  *)
(* morph (Person, Number), and pymorphy's normal_form, tag.tense and       *)
(* tag.aspect of the top-ranked analysis of the token's text.              *)
Tok(lemma, normal_form, pos, dep, Person, Number, tense, aspect) ==
    [lemma |-> lemma, normal_form |-> normal_form, pos |-> pos, dep |-> dep,
     head |-> 0, Person |-> Person, Number |-> Number,
     tense |-> tense, aspect |-> aspect]

RECURSIVE HeadPow(_, _, _)
HeadPow(h, i, k) == IF k = 0 THEN i ELSE HeadPow(h, h[i], k - 1)

(* The parser's head relation is a rooted tree: one token is its own head, *)
(* every other token reaches it by following heads.                        *)
Trees(n) ==
    {h \in [1..n -> 1..n] :
        \E r \in 1..n :
            /\ h[r] = r
            /\ \A i \in 1..n : (i # r => h[i] # i) /\ HeadPow(h, i, n) = r}

(* The parser labels the root, and only the root, ROOT. *)
MkDoc(h, k) ==
    [i \in DOMAIN h |->
        [k[i] EXCEPT !.head = h[i],
                     !.dep = IF h[i] = i THEN "ROOT" ELSE k[i].dep]]

(* doc = nlp(text): any sentence of at most MaxLen tokens over Kinds. *)
ParsedOver(Kinds) ==
    \E n \in 1..MaxLen : \E h \in Trees(n) : \E k \in [1..n -> Kinds] :
        doc = MkDoc(h, k)

----------------------------------------------------------------------------
(* check_for_negation *)

(* Variant: the head of the particle is not compared with target. *)
RECURSIVE negation_scan_any_head(_, _, _)
negation_scan_any_head(t, d, i) ==
    IF i > Len(d) THEN "no"
    ELSE IF d[i].lemma = "ne" THEN "negation"
    ELSE negation_scan_any_head(t, d, i + 1)

(* Variant: the final return is missing, the function falls off its end. *)
RECURSIVE negation_scan_no_default(_, _, _)
negation_scan_no_default(t, d, i) ==
    IF i > Len(d) THEN NoneTag
    ELSE IF d[i].head = t /\ d[i].lemma = "ne" THEN "negation"
    ELSE negation_scan_no_default(t, d, i + 1)

RECURSIVE negation_scan(_, _, _)
negation_scan(t, d, i) ==
    IF i > Len(d) THEN "no"
    ELSE IF d[i].head = t /\ d[i].lemma = "ne" THEN "negation"
    ELSE negation_scan(t, d, i + 1)

check_for_negation(t, d) == negation_scan(t, d, 1)

----------------------------------------------------------------------------
(* find_target_tokens *)

Matches(tok, v) == tok.lemma = v \/ tok.normal_form = v

(* The condition of each of the five inner loops, for outer token t and    *)
(* inner token s (token_2).                                                *)
Tier(k, t, s, d) ==
    CASE k = 1 -> d[s].dep \in {"ccomp", "xcomp", "conj"} /\ d[s].head = t
      [] k = 2 -> d[s].dep \in {"advcl", "acl", "parataxis"} /\ d[s].head = t
      [] k = 3 -> /\ d[s].dep \in {"obj", "obl"}
                  /\ d[s].pos \in {"NOUN", "ADJ"}
                  /\ d[s].head = t
      [] k = 4 -> d[t].dep \in {"parataxis"} /\ d[t].head = s
      [] k = 5 -> /\ d[d[s].head].head = t
                  /\ d[s].dep \in {"ccomp", "advcl", "xcomp", "parataxis", "conj", "acl"}
                  /\ d[d[s].head].dep = "obl"

(* One inner loop "for token_2 in doc": the first token_2 that satisfies   *)
(* the loop's condition, 0 if the loop ends without returning.             *)
RECURSIVE tier_scan(_, _, _, _)
tier_scan(k, t, d, s) ==
    IF s > Len(d) THEN 0
    ELSE IF Tier(k, t, s, d) THEN s
    ELSE tier_scan(k, t, d, s + 1)

(* Variant: the second loop written before the first. *)
TierOrderSwapped == <<2, 1, 3, 4, 5>>

TierOrder == <<1, 2, 3, 4, 5>>

(* The five loops in the order they are written. *)
RECURSIVE cascade(_, _, _)
cascade(t, d, n) ==
    IF n > Len(TierOrder) THEN None
    ELSE LET s == tier_scan(TierOrder[n], t, d, 1)
         IN  IF s # 0 THEN <<t, s>> ELSE cascade(t, d, n + 1)

(* Variant: the outer loop ends at the first matching token. *)
RECURSIVE target_scan_first_only(_, _, _)
target_scan_first_only(d, v, t) ==
    IF t > Len(d) THEN None
    ELSE IF Matches(d[t], v) THEN cascade(t, d, 1)
    ELSE target_scan_first_only(d, v, t + 1)

(* The outer loop "for token in doc": a matching token whose five loops    *)
(* all end without returning does not end the outer loop.                  *)
RECURSIVE target_scan(_, _, _)
target_scan(d, v, t) ==
    IF t > Len(d) THEN None
    ELSE IF Matches(d[t], v)
         THEN LET r == cascade(t, d, 1)
              IN  IF r # None THEN r ELSE target_scan(d, v, t + 1)
         ELSE target_scan(d, v, t + 1)

find_target_tokens(d, v) == target_scan(d, v, 1)

----------------------------------------------------------------------------
(* find_conjunction *)

Conjunctions == {"chto", "chtoby", "budto", "no", "kak", "kakoj", "kogda"}

(* token1.nbor(i) raises IndexError outside the doc. The loop's guard      *)
(* "token1.i + i > len(doc) - 1" is evaluated after i += 1 only.           *)
RECURSIVE conjunction_scan(_, _, _, _)
conjunction_scan(token1, token2, d, i) ==
    IF token1 + i > Len(d) THEN IndexError
    ELSE IF token1 + i = token2 THEN "-"
    ELSE IF d[token1 + i].pos = "CSUBJ" \/ d[token1 + i].dep = "mark"
         THEN d[token1 + i].lemma
    ELSE IF d[token1 + i].lemma \in Conjunctions THEN d[token1 + i].lemma
    ELSE IF token1 + (i + 1) > Len(d) THEN "-"
    ELSE conjunction_scan(token1, token2, d, i + 1)

find_conjunction(token1, token2, d) == conjunction_scan(token1, token2, d, 1)

----------------------------------------------------------------------------
(* Specification of find_target_tokens followed by find_conjunction *)

LocateKinds ==
    {Tok(TargetVerb, TargetVerb, "VERB", "parataxis", <<"First">>, <<"Sing">>, "pres", "impf"),
     Tok("dumaju", TargetVerb, "VERB", "conj", <<"First">>, <<"Sing">>, "pres", "impf"),
     Tok("prijti", "prijti", "VERB", "ccomp", <<"Third">>, <<"Sing">>, "futr", "perf"),
     Tok("idti", "idti", "VERB", "advcl", <<>>, <<"Sing">>, "past", "impf"),
     Tok("dom", "dom", "NOUN", "obl", <<>>, <<"Sing">>, NoneTag, NoneTag),
     Tok("kakoj", "kakoj", "DET", "obl", <<>>, <<"Sing">>, NoneTag, NoneTag),
     Tok("chto", "chto", "SCONJ", "mark", <<>>, <<>>, NoneTag, NoneTag)}

InitLocate ==
    /\ Idle
    /\ ParsedOver(LocateKinds)
    /\ verb = TargetVerb
    /\ target = 0
    /\ pc = "call"

Locate ==
    /\ pc = "call"
    /\ tokens' = find_target_tokens(doc, verb)
    /\ pc' = IF tokens' = None THEN "returned" ELSE "located"
    /\ UNCHANGED <<initial_df, new_df, df, doc, verb, neg, mat, sub, conj, target>>

FindConjunction ==
    /\ pc = "located"
    /\ conj' = find_conjunction(tokens[1], tokens[2], doc)
    /\ pc' = "returned"
    /\ UNCHANGED <<initial_df, new_df, df, doc, verb, tokens, neg, mat, sub, target>>

NextLocate == Locate \/ FindConjunction

SpecLocate == InitLocate /\ [][NextLocate]_vars

Located == pc \in {"located", "returned"}

MatchingTokens == {t \in 1..Len(doc) : Matches(doc[t], verb)}

AnyTier(t) == \E k \in 1..5 : \E s \in 1..Len(doc) : Tier(k, t, s, doc)

(* C2 as stated: the target of a returned pair is the lowest-index         *)
(* matching token, and the result is nothing when no tier matches for that *)
(* first matching token.                                                   *)
C2_OnlyFirstOccurrence ==
    Located /\ MatchingTokens # {} =>
        LET first == CHOOSE t \in MatchingTokens : \A u \in MatchingTokens : t <= u
        IN  /\ tokens # None => tokens[1] = first
            /\ ~AnyTier(first) => tokens = None

(* C2 as amended: the target of a returned pair is the lowest-index        *)
(* matching token for which some tier matches; the result is nothing only  *)
(* if no matching token has a tier that matches.                           *)
C2_FirstOccurrenceWithPartner ==
    Located =>
        /\ tokens # None =>
              /\ tokens[1] \in MatchingTokens
              /\ AnyTier(tokens[1])
              /\ \A u \in MatchingTokens : u < tokens[1] => ~AnyTier(u)
        /\ tokens = None => \A u \in MatchingTokens : ~AnyTier(u)

C2_Witness ==
    /\ Located
    /\ tokens # None
    /\ \E u \in MatchingTokens : u < tokens[1]

(* C5: for the target of the returned pair the tiers are tried in priority *)
(* order and each tier returns its lowest-index match; nothing is returned *)
(* only if no tier matches.                                                *)
C5_TierPriority ==
    Located =>
        /\ tokens # None =>
              /\ \E k \in 1..5 : Tier(k, tokens[1], tokens[2], doc)
              /\ \A k \in 1..5 :
                    Tier(k, tokens[1], tokens[2], doc) =>
                        /\ \A j \in 1..(k - 1) : \A s \in 1..Len(doc) :
                              ~Tier(j, tokens[1], s, doc)
                        /\ \A s \in 1..(tokens[2] - 1) :
                              ~Tier(k, tokens[1], s, doc)
        /\ tokens = None => \A t \in MatchingTokens : ~AnyTier(t)

C5_Witness ==
    /\ Located
    /\ tokens # None
    /\ \E k, j \in 1..5 : \E s \in 1..(tokens[2] - 1) :
          /\ k < j
          /\ Tier(k, tokens[1], tokens[2], doc)
          /\ Tier(j, tokens[1], s, doc)

ConjunctionFound ==
    pc = "returned" /\ tokens # None /\ conj \notin {"-", IndexError}

(* C3: for every located pair, a result other than "-" is the lemma of a   *)
(* token strictly between main and sub, whichever of the two comes first.  *)
C3_ConjunctionStrictlyBetween ==
    ConjunctionFound =>
        \E k \in 1..Len(doc) :
            /\ doc[k].lemma = conj
            /\ \/ tokens[1] < k /\ k < tokens[2]
               \/ tokens[2] < k /\ k < tokens[1]

(* C4: for every located pair find_conjunction returns a string, a lemma   *)
(* or "-", without stepping outside the sentence, also when main is the    *)
(* last token or sub does not follow main.                                 *)
C4_ConjunctionNeverRaises ==
    pc = "returned" /\ tokens # None => conj # IndexError

----------------------------------------------------------------------------
(* Specification of check_for_negation on its own *)

NegKinds ==
    {Tok("ne", "ne", "PART", "advmod", <<>>, <<>>, NoneTag, NoneTag),
     Tok("on", "on", "PRON", "nsubj", <<"Third">>, <<"Sing">>, NoneTag, NoneTag),
     Tok(TargetVerb, TargetVerb, "VERB", "conj", <<>>, <<"Sing">>, "past", "impf")}

InitNeg ==
    /\ Idle
    /\ ParsedOver(NegKinds)
    /\ verb = TargetVerb
    /\ target \in 1..Len(doc)
    /\ pc = "call"

CheckNegation ==
    /\ pc = "call"
    /\ neg' = check_for_negation(target, doc)
    /\ pc' = "returned"
    /\ UNCHANGED <<initial_df, new_df, df, doc, verb, tokens, mat, sub, conj, target>>

NextNeg == CheckNegation

SpecNeg == InitNeg /\ [][NextNeg]_vars

(* C8: check_for_negation returns "negation" iff some token has target as  *)
(* its head and "ne" as its lemma, and "no" otherwise; a particle attached *)
(* to any other token never yields "negation".                             *)
C8_NegationIffDirectDependent ==
    pc = "returned" =>
        /\ neg \in {"negation", "no"}
        /\ neg = "negation" <=>
              \E i \in 1..Len(doc) : doc[i].head = target /\ doc[i].lemma = "ne"

C8_Witness ==
    /\ pc = "returned"
    /\ neg = "no"
    /\ \E i \in 1..Len(doc) :
          /\ doc[i].lemma = "ne"
          /\ doc[i].head # target
          /\ doc[doc[i].head].head = target

----------------------------------------------------------------------------
(* check_gr *)

(* The dependency labels that contain "subj". *)
SubjLabels == {"nsubj", "nsubj:pass", "csubj", "csubj:pass"}

(* token.ancestors: the chain of heads above the token, the token itself   *)
(* excluded, up to and including the root.                                 *)
Ancestors(i, d) ==
    {a \in 1..Len(d) : a # i /\ \E n \in 1..Len(d) : HeadPow([j \in 1..Len(d) |-> d[j].head], i, n) = a}

(* token.children: the tokens whose head is the token, itself excluded. *)
Children(a, d) == {c \in 1..Len(d) : c # a /\ d[c].head = a}

(* morph.get(field, default) *)
MorphGet(values, default) == IF values = <<>> THEN default ELSE values

(* "if token.head == target": the subject's own person and number. *)
direct_check(t, d, i, pn) ==
    IF d[i].head = t
    THEN [person |-> MorphGet(d[i].Person, <<"Third">>), number |-> d[i].Number]
    ELSE pn

(* Variant: the ancestor check assigns the subject's values. *)
ancestor_check_subject(t, d, i, pn) ==
    IF \E anc \in Ancestors(i, d) : t \in Children(anc, d)
    THEN [person |-> MorphGet(d[i].Person, <<"Third">>), number |-> d[i].Number]
    ELSE pn

(* "for anc in token.ancestors: for child in anc.children: if child ==     *)
(* target": every hit assigns the child's, that is target's, own values.   *)
ancestor_check(t, d, i, pn) ==
    IF \E anc \in Ancestors(i, d) : t \in Children(anc, d)
    THEN [person |-> MorphGet(d[t].Person, <<"Third">>), number |-> d[t].Number]
    ELSE pn

(* Variant: the scan ends at the first subject that qualifies. *)
RECURSIVE subject_scan_first_wins(_, _, _, _)
subject_scan_first_wins(t, d, i, pn) ==
    IF i > Len(d) THEN pn
    ELSE IF /\ d[i].dep \in SubjLabels
            /\ \/ d[i].head = t
               \/ \E anc \in Ancestors(i, d) : t \in Children(anc, d)
         THEN ancestor_check(t, d, i, direct_check(t, d, i, pn))
         ELSE subject_scan_first_wins(t, d, i + 1, pn)

(* "for token in doc" of the VERB branch: no break, a later assignment     *)
(* overwrites an earlier one.                                              *)
RECURSIVE subject_scan(_, _, _, _)
subject_scan(t, d, i, pn) ==
    IF i > Len(d) THEN pn
    ELSE IF d[i].dep \in SubjLabels
         THEN subject_scan(t, d, i + 1, ancestor_check(t, d, i, direct_check(t, d, i, pn)))
         ELSE subject_scan(t, d, i + 1, pn)

(* "for token in doc ... break ... else" of the last branch. *)
RECURSIVE first_subject(_, _, _)
first_subject(t, d, i) ==
    IF i > Len(d) THEN [person |-> Dash, number |-> Dash]
    ELSE IF d[i].head = t /\ d[i].dep \in SubjLabels
         THEN [person |-> MorphGet(d[i].Person, <<"Third">>), number |-> d[i].Number]
         ELSE first_subject(t, d, i + 1)

OrDash(x) == IF x = <<>> THEN Dash ELSE x

gr_branch(t, d) ==
    IF d[t].pos = "VERB"
    THEN LET tense == IF d[t].tense # NoneTag THEN <<d[t].tense>> ELSE None
             aspect == IF d[t].aspect # NoneTag THEN <<d[t].aspect>> ELSE None
             own == [person |-> d[t].Person, number |-> d[t].Number]
             pn == IF own.person = <<>> THEN subject_scan(t, d, 1, own) ELSE own
         IN  [tense |-> tense, person |-> pn.person, number |-> pn.number, aspect |-> aspect]
    ELSE IF d[t].pos \in {"NOUN", "PRON"}
    THEN [tense |-> Dash, person |-> MorphGet(d[t].Person, <<"Third">>),
          number |-> MorphGet(d[t].Number, Dash), aspect |-> Dash]
    ELSE LET pn == first_subject(t, d, 1)
         IN  [tense |-> Dash, person |-> pn.person, number |-> pn.number, aspect |-> Dash]

(* Returns tense[0], person[0], number[0], aspect[0]. *)
check_gr(t, d) ==
    LET g == gr_branch(t, d)
    IN  [tense |-> Head(OrDash(g.tense)), person |-> Head(OrDash(g.person)),
         number |-> Head(OrDash(g.number)), aspect |-> Head(OrDash(g.aspect))]

----------------------------------------------------------------------------
(* Specification of check_gr on its own *)

GrKinds ==
    {Tok("dumat", "dumat", "VERB", "ccomp", <<"First">>, <<"Sing">>, "pres", "impf"),
     Tok("skazat", "skazat", "VERB", "conj", <<>>, <<"Plur">>, "past", "perf"),
     Tok("prijti", "prijti", "VERB", "xcomp", <<>>, <<>>, NoneTag, "perf"),
     Tok("ja", "ja", "PRON", "nsubj", <<"First">>, <<"Sing">>, NoneTag, NoneTag),
     Tok("vy", "vy", "PRON", "nsubj", <<"Second">>, <<"Plur">>, NoneTag, NoneTag),
     Tok("gost", "gost", "NOUN", "nsubj:pass", <<>>, <<"Sing">>, NoneTag, NoneTag),
     Tok("rad", "rad", "ADJ", "obl", <<>>, <<"Plur">>, NoneTag, NoneTag)}

InitGr ==
    /\ Idle
    /\ ParsedOver(GrKinds)
    /\ verb = TargetVerb
    /\ target \in 1..Len(doc)
    /\ pc = "call"

CheckGr ==
    /\ pc = "call"
    /\ mat' = check_gr(target, doc)
    /\ pc' = "returned"
    /\ UNCHANGED <<initial_df, new_df, df, doc, verb, tokens, neg, sub, conj, target>>

NextGr == CheckGr

SpecGr == InitGr /\ [][NextGr]_vars

IsSubj(k) == doc[k].dep \in SubjLabels

(* The subject tokens for which the scan makes an assignment: by the head  *)
(* check, and by the ancestor check.                                       *)
HeadHits == {k \in 1..Len(doc) : IsSubj(k) /\ doc[k].head = target}

AncestorHits ==
    {k \in 1..Len(doc) :
        /\ IsSubj(k)
        /\ \E a \in 1..Len(doc) :
              /\ a # k /\ a # target /\ doc[target].head = a
              /\ \E n \in 1..Len(doc) :
                    HeadPow([j \in 1..Len(doc) |-> doc[j].head], k, n) = a}

First1(x, default) == IF x = <<>> THEN default ELSE x[1]

FallbackRan ==
    pc = "returned" /\ doc[target].pos = "VERB" /\ doc[target].Person = <<>>

(* C9: with no person on the verb, person and number are those of the last *)
(* assignment of the scan over the subj tokens in ascending order, each    *)
(* token's head check before its ancestor check; person is "-" only if no  *)
(* assignment was made.                                                    *)
C9_LastWriterWins ==
    FallbackRan =>
        LET hits == HeadHits \cup AncestorHits
        IN  IF hits = {}
            THEN mat.person = "-" /\ mat.number = First1(doc[target].Number, "-")
            ELSE LET k == CHOOSE x \in hits : \A y \in hits : y <= x
                     w == IF k \in AncestorHits THEN target ELSE k
                 IN  /\ mat.person = First1(doc[w].Person, "Third")
                     /\ mat.number = First1(doc[w].Number, "-")

C9_Witness ==
    /\ FallbackRan
    /\ \E j, k \in HeadHits :
          /\ j < k
          /\ AncestorHits = {}
          /\ doc[j].Person # doc[k].Person
          /\ mat.person = First1(doc[k].Person, "Third")
          /\ mat.person # First1(doc[j].Person, "Third")

----------------------------------------------------------------------------
(* make_new_df *)

(* Variant: the conjunction of the placeholder left empty. *)
PlaceholderRecordNoConjunction(row) ==
    [Source |-> row.Source, Verb |-> row.Verb, Embedding |-> "-",
     PreContext |-> row.PreContext, Target |-> row.Target,
     PostContext |-> row.PostContext,
     MatTense |-> "-", MatSubjPers |-> "-", MatSubjNum |-> "-", MatAspect |-> "-",
     SubTense |-> "-", SubSubjPers |-> "-", SubSubjNum |-> "-", SubAspect |-> "-",
     Conjunction |-> ""]

(* The record appended when find_target_tokens returns nothing. *)
PlaceholderRecord(row) ==
    [Source |-> row.Source, Verb |-> row.Verb, Embedding |-> "-",
     PreContext |-> row.PreContext, Target |-> row.Target,
     PostContext |-> row.PostContext,
     MatTense |-> "-", MatSubjPers |-> "-", MatSubjNum |-> "-", MatAspect |-> "-",
     SubTense |-> "-", SubSubjPers |-> "-", SubSubjNum |-> "-", SubAspect |-> "-",
     Conjunction |-> "-"]

(* The record appended for a located pair. *)
AnnotatedRecord(row, n, m, u, c) ==
    [Source |-> row.Source, Verb |-> row.Verb, Embedding |-> n,
     PreContext |-> row.PreContext, Target |-> row.Target,
     PostContext |-> row.PostContext,
     MatTense |-> m.tense, MatSubjPers |-> m.person, MatSubjNum |-> m.number,
     MatAspect |-> m.aspect,
     SubTense |-> u.tense, SubSubjPers |-> u.person, SubSubjNum |-> u.number,
     SubAspect |-> u.aspect,
     Conjunction |-> c]

(* Variant: only the capitalised spellings of the tenses are listed. *)
mapping_capitalised ==
    "Past" :> "past" @@ "Pres" :> "present" @@ "Fut" :> "future" @@
    "First" :> "first" @@ "Second" :> "second" @@ "Third" :> "third" @@
    "Sing" :> "singular" @@ "Plur" :> "plural" @@
    "perf" :> "pf" @@ "impf" :> "ipf" @@ NoneTag :> "-"

mapping ==
    "Past" :> "past" @@ "pres" :> "present" @@ "Pres" :> "present" @@
    "futr" :> "future" @@ "Fut" :> "future" @@
    "First" :> "first" @@ "Second" :> "second" @@ "Third" :> "third" @@
    "Sing" :> "singular" @@ "Plur" :> "plural" @@
    "perf" :> "pf" @@ "impf" :> "ipf" @@ NoneTag :> "-"

(* lambda x: mapping.get(x, x) *)
mapping_get(x) == IF x \in DOMAIN mapping THEN mapping[x] ELSE x

(* applymap over the columns "MatTense":"Conjunction" of one row. *)
applymap(r) ==
    [r EXCEPT !.MatTense = mapping_get(@), !.MatSubjPers = mapping_get(@),
              !.MatSubjNum = mapping_get(@), !.MatAspect = mapping_get(@),
              !.SubTense = mapping_get(@), !.SubSubjPers = mapping_get(@),
              !.SubSubjNum = mapping_get(@), !.SubAspect = mapping_get(@),
              !.Conjunction = mapping_get(@)]

(* The row the loop of make_new_df reads next. *)
MoreRows == pc = "rows" /\ Len(new_df) < Len(initial_df)

NextRow == initial_df[Len(new_df) + 1]

(* One iteration that takes the "if not tokens" branch. *)
AppendPlaceholder ==
    /\ MoreRows
    /\ doc' = NextRow.Target
    /\ tokens' = find_target_tokens(doc', NextRow.Verb)
    /\ tokens' = None
    /\ new_df' = Append(new_df, PlaceholderRecord(NextRow))
    /\ UNCHANGED <<initial_df, df, verb, neg, mat, sub, conj, target, pc>>

(* One iteration for a located pair in which find_conjunction returns. *)
AppendAnnotated ==
    /\ MoreRows
    /\ doc' = NextRow.Target
    /\ tokens' = find_target_tokens(doc', NextRow.Verb)
    /\ tokens' # None
    /\ neg' = check_for_negation(tokens'[1], doc')
    /\ mat' = check_gr(tokens'[1], doc')
    /\ sub' = check_gr(tokens'[2], doc')
    /\ conj' = find_conjunction(tokens'[1], tokens'[2], doc')
    /\ conj' # IndexError
    /\ new_df' = Append(new_df, AnnotatedRecord(NextRow, neg', mat', sub', conj'))
    /\ UNCHANGED <<initial_df, df, verb, target, pc>>

(* One iteration in which find_conjunction raises: nothing catches the     *)
(* exception, make_new_df ends without a DataFrame.                        *)
RaiseIndexError ==
    /\ MoreRows
    /\ doc' = NextRow.Target
    /\ tokens' = find_target_tokens(doc', NextRow.Verb)
    /\ tokens' # None
    /\ neg' = check_for_negation(tokens'[1], doc')
    /\ mat' = check_gr(tokens'[1], doc')
    /\ sub' = check_gr(tokens'[2], doc')
    /\ find_conjunction(tokens'[1], tokens'[2], doc') = IndexError
    /\ pc' = "raised"
    /\ UNCHANGED <<initial_df, new_df, df, verb, conj, target>>

(* After the loop: the DataFrame of new_df with the mapping applied. *)
ApplyMapping ==
    /\ pc = "rows"
    /\ Len(new_df) = Len(initial_df)
    /\ df' = [i \in 1..Len(new_df) |-> applymap(new_df[i])]
    /\ pc' = "done"
    /\ UNCHANGED <<initial_df, new_df, doc, verb, tokens, neg, mat, sub, conj, target>>

Next == AppendPlaceholder \/ AppendAnnotated \/ RaiseIndexError \/ ApplyMapping

----------------------------------------------------------------------------
(* The input batches of the pipeline *)

Bundles ==
    <<[pos |-> "VERB", Person |-> <<"First">>, Number |-> <<"Sing">>, tense |-> "pres", aspect |-> "impf"],
      [pos |-> "VERB", Person |-> <<>>, Number |-> <<"Plur">>, tense |-> "past", aspect |-> "perf"],
      [pos |-> "VERB", Person |-> <<"Second">>, Number |-> <<"Sing">>, tense |-> "futr", aspect |-> "perf"],
      [pos |-> "VERB", Person |-> <<>>, Number |-> <<>>, tense |-> NoneTag, aspect |-> "impf"],
      [pos |-> "VERB", Person |-> <<"Third">>, Number |-> <<"Plur">>, tense |-> "pres", aspect |-> NoneTag],
      [pos |-> "NOUN", Person |-> <<>>, Number |-> <<"Sing">>, tense |-> NoneTag, aspect |-> NoneTag],
      [pos |-> "PRON", Person |-> <<"Second">>, Number |-> <<>>, tense |-> NoneTag, aspect |-> NoneTag],
      [pos |-> "ADJ", Person |-> <<>>, Number |-> <<"Plur">>, tense |-> NoneTag, aspect |-> NoneTag]>>

Word(b, lemma, normal_form, dep) ==
    Tok(lemma, normal_form, b.pos, dep, b.Person, b.Number, b.tense, b.aspect)

Ja == Tok("ja", "ja", "PRON", "nsubj", <<"First">>, <<"Sing">>, NoneTag, NoneTag)

Chto == Tok("chto", "chto", "SCONJ", "mark", <<>>, <<>>, NoneTag, NoneTag)

Ne == Tok("ne", "ne", "PART", "advmod", <<>>, <<>>, NoneTag, NoneTag)

Kogda == Tok("kogda", "kogda", "SCONJ", "advmod", <<>>, <<>>, NoneTag, NoneTag)

(* Sentences around a form of the target verb with features Bundles[m]     *)
(* and a partner with features Bundles[u]: subject, verb, "chto", clause;  *)
(* negated verb with a complement; the verb as a parenthetical after its   *)
(* head, sentence-final or not; the verb alone; no form of the verb.       *)
Shapes(m, u) ==
    {MkDoc(<<2, 2, 4, 2>>, <<Ja, Word(Bundles[m], TargetVerb, TargetVerb, "ROOT"), Chto,
                             Word(Bundles[u], "prijti", "prijti", "ccomp")>>),
     MkDoc(<<2, 2, 2>>, <<Ne, Word(Bundles[m], "dumaju", TargetVerb, "ROOT"),
                          Word(Bundles[u], "prijti", "prijti", "xcomp")>>),
     MkDoc(<<1, 1>>, <<Word(Bundles[u], "prijti", "prijti", "ROOT"),
                       Word(Bundles[m], TargetVerb, TargetVerb, "parataxis")>>),
     MkDoc(<<1, 1, 1>>, <<Word(Bundles[u], "prijti", "prijti", "ROOT"),
                          Word(Bundles[m], TargetVerb, "dumat", "parataxis"), Kogda>>),
     MkDoc(<<1>>, <<Word(Bundles[m], TargetVerb, TargetVerb, "ROOT")>>),
     MkDoc(<<1>>, <<Word(Bundles[u], "prijti", "prijti", "ROOT")>>)}

PipelineDocs ==
    UNION {Shapes(m, (m % Len(Bundles)) + 1) : m \in 1..Len(Bundles)}

Rows ==
    {[Source |-> "corpus", Verb |-> TargetVerb, PreContext |-> "", Target |-> d,
      PostContext |-> ""] : d \in PipelineDocs}

Init ==
    /\ \E n \in 1..MaxRows : initial_df \in [1..n -> Rows]
    /\ new_df = <<>> /\ df = <<>>
    /\ doc = <<>> /\ verb = TargetVerb /\ target = 0
    /\ tokens = None /\ neg = "" /\ mat = <<>> /\ sub = <<>> /\ conj = ""
    /\ pc = "rows"

Spec == Init /\ [][Next]_vars

(* find_target_tokens returns nothing for the row: no matching token has   *)
(* a token that satisfies one of the five conditions.                      *)
NoPair(row) ==
    \A t \in 1..Len(row.Target) :
        Matches(row.Target[t], row.Verb) =>
            ~\E k \in 1..5 : \E s \in 1..Len(row.Target) : Tier(k, t, s, row.Target)

(* C1 as stated: the Embedding of every record the pipeline builds is      *)
(* "negation" or "no".                                                     *)
C1_EmbeddingNegationOrNo ==
    /\ \A i \in 1..Len(new_df) : new_df[i].Embedding \in {"negation", "no"}
    /\ \A i \in 1..Len(df) : df[i].Embedding \in {"negation", "no"}

(* C1 as amended: the Embedding of a record is "negation" or "no" when a   *)
(* pair was located for its row, and "-" when none was.                    *)
C1_EmbeddingUnlessNoPair ==
    /\ \A i \in 1..Len(new_df) :
          IF NoPair(initial_df[i])
          THEN new_df[i].Embedding = "-"
          ELSE new_df[i].Embedding \in {"negation", "no"}
    /\ \A i \in 1..Len(df) : df[i].Embedding = new_df[i].Embedding

C1_Witness ==
    /\ pc = "done"
    /\ \E i, j \in 1..Len(df) :
          /\ df[i].Embedding = "-"
          /\ df[j].Embedding = "negation"

Canonical ==
    {"past", "present", "future", "first", "second", "third", "singular", "plural",
     "pf", "ipf", "-"}

GrammaticalFields(r) ==
    {r.MatTense, r.MatSubjPers, r.MatSubjNum, r.MatAspect,
     r.SubTense, r.SubSubjPers, r.SubSubjNum, r.SubAspect}

(* C6: after the mapping every derived grammatical field of every record   *)
(* is a member of the canonical vocabulary.                                *)
C6_FieldsCanonical ==
    pc = "done" => \A i \in 1..Len(df) : GrammaticalFields(df[i]) \subseteq Canonical

C6_Witness ==
    /\ pc = "done"
    /\ \E i \in 1..Len(df) :
          /\ df[i].MatTense = "present" /\ df[i].MatSubjPers = "first"
          /\ df[i].SubTense = "past" /\ df[i].SubAspect = "pf"
          /\ df[i].SubSubjPers = "third" /\ df[i].SubSubjNum = "plural"

(* C7: a row for which nothing is located gets exactly one record, with    *)
(* the nine grammatical and conjunction fields "-"; the locals that hold   *)
(* the results of check_for_negation, check_gr and find_conjunction are    *)
(* not written, and the loop goes on to the next row.                      *)
C7_NoPairPlaceholder ==
    [][MoreRows /\ NoPair(NextRow) =>
          /\ Len(new_df') = Len(new_df) + 1
          /\ SubSeq(new_df', 1, Len(new_df)) = new_df
          /\ LET r == new_df'[Len(new_df')]
             IN  /\ GrammaticalFields(r) \cup {r.Conjunction} = {"-"}
                 /\ r.Target = NextRow.Target
          /\ UNCHANGED <<neg, mat, sub, conj>>
          /\ pc' = "rows"]_vars

C7_Witness ==
    /\ Len(new_df) >= 2
    /\ NoPair(initial_df[1])
    /\ new_df[1].MatTense = "-" /\ new_df[1].Conjunction = "-"

====
